---------------------------- MODULE Spec2Model ----------------------------
(***************************************************************************)
(* The four example programs of workshop_notebooks/Part4_MPI4py.ipynb:     *)
(*   mpi_hello.py      every rank prints a greeting, then a barrier        *)
(*   point_mpi.py      rank 0 sends a dictionary to rank 1                 *)
(*   broadcast_mpi.py  rank 0 broadcasts a 5-element vector                *)
(*   parent_pi.py / child_pi.py   spawn, Bcast, midpoint rule, Reduce      *)
(* Each program is a set of processes, one per rank; a process's position  *)
(* in its script is pc[r].  The MPI calls have the meaning the MPI         *)
(* standard gives them; standard output is a per-process stream that the   *)
(* launcher merges into one terminal stream.                               *)
(***************************************************************************)
EXTENDS Integers, Sequences, FiniteSets, TLC

VARIABLES
    n,            \* comm.size of the launched world (mpirun -np n)
    pc,           \* pc[r]: position of rank r in its script
    buffered,     \* whether sys.stdout is block-buffered (pipe) or not (tty, -u)
    buf,          \* buf[r]: lines rank r has printed that are not yet written out
    out,          \* the merged terminal output: the lines written, each with the
                  \* rank that wrote it
    arrived,      \* ranks that have entered comm.Barrier()
    data,         \* point_mpi.py: data[r], the variable `data` of rank r
    chan,         \* point_mpi.py: messages sent and not yet received
    sendCalls,    \* point_mpi.py: the comm.send calls made, in order
    received,     \* point_mpi.py: the messages comm.recv has returned, in order
    A,            \* broadcast_mpi.py: A[r], the array of rank r
    bcastData,    \* broadcast_mpi.py: what the root of the Bcast has sent
    sourceN,      \* parent_pi.py: the number written in N = numpy.array(100, 'i')
    parentN,      \* parent_pi.py: N
    parentPI,     \* parent_pi.py: PI
    cpc,          \* child_pi.py: cpc[c], position of spawned child c
    childSize,    \* child_pi.py: size of child c
    childN,       \* child_pi.py: N of child c
    visited,      \* child_pi.py: the values i has taken in the loop of child c
    childPI,      \* child_pi.py: PI of child c
    bcastN,       \* pi: what the parent's Bcast has sent to the children
    acc,          \* pi: the running sum of the Reduce at the parent
    contributed,  \* pi: children whose contribution the Reduce has combined
    parentCalls,  \* pi: the collectives the parent has called, in order
    childCalls    \* pi: the collectives child c has called, in order

stdoutVars == <<buffered, buf, out>>
pointVars  == <<data, chan, sendCalls, received>>
bcastVars  == <<A, bcastData>>
piVars     == <<sourceN, parentN, parentPI, cpc, childSize, childN, visited, childPI,
               bcastN, acc, contributed, parentCalls, childCalls>>
vars == <<n, pc, buffered, buf, out, arrived, data, chan, sendCalls, received, A, bcastData,
          sourceN, parentN, parentPI, cpc, childSize, childN, visited, childPI,
          bcastN, acc, contributed, parentCalls, childCalls>>

---------------------------------------------------------------------------
(* Bounds of the model                                                     *)

\* the launcher is run with 1..MaxProcs processes
MaxProcs == 3

\* parent_pi.py: N is 100, or edited to one of 0..MaxN
MaxN == 3

\* the index sets of child_pi.py are evaluated for N in 0..MaxRangeN and for
\* 1..MaxSize children
MaxRangeN == 7
MaxSize == 4

\* broadcast_mpi.py: unbuffered standard output is explored for up to this
\* many processes, block-buffered output for every process count
MaxUnbufferedProcs == 2

---------------------------------------------------------------------------
(* Text: a line is a sequence of tokens, each a string                     *)

DigitChar(d) == <<"0", "1", "2", "3", "4", "5", "6", "7", "8", "9">>[d + 1]

RECURSIVE Digits(_)
\* str(k) / "{}".format(k) / "%d" % k for an integer k >= 0
Digits(k) == IF k < 10 THEN <<DigitChar(k)>>
             ELSE Digits(k \div 10) \o <<DigitChar(k % 10)>>

\* "%02d" % k: at least two digits, padded with zeros on the left
Format02d(k) == IF k < 10 THEN <<"0">> \o Digits(k) ELSE Digits(k)

RECURSIVE Repeat(_, _)
\* c * k for a string c
Repeat(c, k) == IF k = 0 THEN "" ELSE Repeat(c, k - 1) \o c

DigitValue(ch) == CHOOSE d \in 0..9 : DigitChar(d) = ch

RECURSIVE ParseInt(_)
\* int(text) for a non-empty sequence of decimal digits
ParseInt(text) ==
    IF Len(text) = 1 THEN DigitValue(text[1])
    ELSE 10 * ParseInt(SubSeq(text, 1, Len(text) - 1)) + DigitValue(text[Len(text)])

\* the position of the first token of `line` equal to tok (0 when there is none)
IndexOf(line, tok) ==
    IF \E i \in 1..Len(line) : line[i] = tok
    THEN CHOOSE i \in 1..Len(line) :
             line[i] = tok /\ \A j \in 1..(i - 1) : line[j] # tok
    ELSE 0

Ranks == 0..(n - 1)

---------------------------------------------------------------------------
(* Standard output                                                         *)

\* print(line) on rank r: the line goes to the terminal at once when stdout
\* is unbuffered, and stays in the process's buffer when it is block-buffered
Emit(r, line) ==
    IF buffered
    THEN buf' = [buf EXCEPT ![r] = Append(@, [src |-> r, text |-> line])] /\ out' = out
    ELSE out' = Append(out, [src |-> r, text |-> line]) /\ buf' = buf

\* interpreter exit on rank r: what is left in the buffer is written out
FlushAtExit(r) ==
    /\ out' = out \o buf[r]
    /\ buf' = [buf EXCEPT ![r] = <<>>]

\* every line printed so far by anyone, written out or not
PrintedLines ==
    {out[i] : i \in 1..Len(out)}
      \cup UNION {{buf[r][i] : i \in 1..Len(buf[r])} : r \in Ranks}

\* what the terminal shows: the text of the lines of `seq`
TextOf(seq) == [i \in 1..Len(seq) |-> seq[i].text]

\* the text of the lines of `seq` that rank r wrote, in order
LinesFrom(seq, r) ==
    LET WrittenByR(line) == line.src = r
    IN  TextOf(SelectSeq(seq, WrittenByR))

\* the text of everything rank r has printed so far, written out or not
PrintedBy(r) == LinesFrom(out, r) \o TextOf(buf[r])

---------------------------------------------------------------------------
(* Values the other programs' variables have in a program that does not    *)
(* use them                                                                *)

\* a double: finite (v in units of 1/Scale), inf or nan
Scale == 10000
Fin(v) == [k |-> "fin", v |-> v]
Inf == [k |-> "inf", v |-> 0]
NaN == [k |-> "nan", v |-> 0]
NoFloat == Fin(0)

IdlePoint ==
    /\ data = [r \in Ranks |-> <<>>]
    /\ chan = <<>>
    /\ sendCalls = <<>>
    /\ received = <<>>
IdleBcast == A = [r \in Ranks |-> <<>>] /\ bcastData = <<>>
IdlePi ==
    /\ sourceN = 0 /\ parentN = 0 /\ parentPI = NoFloat
    /\ cpc = <<>> /\ childSize = <<>> /\ childN = <<>>
    /\ visited = <<>> /\ childPI = <<>>
    /\ bcastN = <<>> /\ acc = NoFloat /\ contributed = {}
    /\ parentCalls = <<>> /\ childCalls = <<>>

InitStdout ==
    /\ buffered \in BOOLEAN
    /\ buf = [r \in Ranks |-> <<>>]
    /\ out = <<>>

---------------------------------------------------------------------------
(* mpi_hello.py                                                            *)

HelloLine(rank, size) ==
    <<"Hello! I'm rank ">> \o Digits(rank) \o <<" from ">> \o Digits(size)
      \o <<" running in total...">>

InitHello ==
    /\ n \in 1..MaxProcs
    /\ pc = [r \in Ranks |-> "print"]
    /\ InitStdout
    /\ arrived = {}
    /\ IdlePoint /\ IdleBcast /\ IdlePi

\* a print that reports rank 0 on every process
HelloPrintRankZero(r) ==
    /\ pc[r] = "print"
    /\ Emit(r, HelloLine(0, n))
    /\ pc' = [pc EXCEPT ![r] = "barrier"]
    /\ UNCHANGED <<n, buffered, arrived, pointVars, bcastVars, piVars>>

\* print("Hello! I'm rank {} from {} running in total...".format(comm.rank, comm.size))
HelloPrint(r) ==
    /\ pc[r] = "print"
    /\ Emit(r, HelloLine(r, n))
    /\ pc' = [pc EXCEPT ![r] = "barrier"]
    /\ UNCHANGED <<n, buffered, arrived, pointVars, bcastVars, piVars>>

\* comm.Barrier(): the call is entered
BarrierEnter(r) ==
    /\ pc[r] = "barrier"
    /\ arrived' = arrived \cup {r}
    /\ pc' = [pc EXCEPT ![r] = "in_barrier"]
    /\ UNCHANGED <<n, stdoutVars, pointVars, bcastVars, piVars>>

\* a barrier that holds nobody back
BarrierOpenAlways == TRUE

\* comm.Barrier() returns once every rank of the communicator has entered it
BarrierOpen == arrived = Ranks

\* a barrier that lets a rank go as soon as that rank itself has entered
HelloBarrierReturnAlone(r) ==
    /\ pc[r] = "in_barrier"
    /\ r \in arrived
    /\ pc' = [pc EXCEPT ![r] = "exit"]
    /\ UNCHANGED <<n, stdoutVars, arrived, pointVars, bcastVars, piVars>>

HelloBarrierReturn(r) ==
    /\ pc[r] = "in_barrier"
    /\ BarrierOpen
    /\ pc' = [pc EXCEPT ![r] = "exit"]
    /\ UNCHANGED <<n, stdoutVars, arrived, pointVars, bcastVars, piVars>>

\* end of the script
HelloExit(r) ==
    /\ pc[r] = "exit"
    /\ FlushAtExit(r)
    /\ pc' = [pc EXCEPT ![r] = "done"]
    /\ UNCHANGED <<n, buffered, arrived, pointVars, bcastVars, piVars>>

NextHello ==
    \E r \in Ranks :
        \/ HelloPrint(r)
        \/ BarrierEnter(r)
        \/ HelloBarrierReturn(r)
        \/ HelloExit(r)

SpecHello == InitHello /\ [][NextHello]_vars

AllDone == \A r \in Ranks : pc[r] = "done"


\* C5: in the hello example every process prints exactly one 'Hello!' line;
\* the ranks the lines report are pairwise distinct and are exactly 0..n-1,
\* and every line reports the same total n.
HelloRankOf(line) == ParseInt(SubSeq(line, 2, IndexOf(line, " from ") - 1))
HelloSizeOf(line) == ParseInt(SubSeq(line, IndexOf(line, " from ") + 1, Len(line) - 1))

C5_HelloOneLinePerRank ==
    /\ \A l \in PrintedLines :
          /\ l.text[1] = "Hello! I'm rank "
          /\ l.text[Len(l.text)] = " running in total..."
          /\ HelloRankOf(l.text) \in Ranks
          /\ HelloSizeOf(l.text) = n
    /\ \A r \in Ranks : Len(PrintedBy(r)) = (IF pc[r] = "print" THEN 0 ELSE 1)
    /\ \A i, j \in 1..Len(out) :
          i # j => HelloRankOf(out[i].text) # HelloRankOf(out[j].text)
    /\ AllDone => /\ Len(out) = n
                  /\ {HelloRankOf(out[i].text) : i \in 1..Len(out)} = 0..(n - 1)

C5_Witness ==
    /\ n >= 2
    /\ AllDone
    /\ Len(out) = n

\* one process of the hello run: whatever step rank r can take next
HelloStep(r) ==
    /\ r \in Ranks
    /\ \/ HelloPrint(r)
       \/ BarrierEnter(r)
       \/ HelloBarrierReturn(r)
       \/ HelloExit(r)

\* mpirun runs every rank as a process of its own, so a rank that can take a
\* step eventually takes it
FairSpecHello ==
    /\ InitHello
    /\ [][NextHello]_vars
    /\ \A r \in 0..(MaxProcs - 1) : WF_vars(HelloStep(r))

HelloPrinted(r) == Len(PrintedBy(r)) = 1
HelloReturned(r) == pc[r] \in {"exit", "done"}

\* C11: in the hello example no process returns from comm.Barrier() (and so
\* none terminates) before every process has printed its 'Hello!' line and
\* entered the barrier, and under fair scheduling every process eventually
\* returns from the barrier.
C11_BarrierSynchronises ==
    /\ [](\A r \in Ranks :
            HelloReturned(r) =>
                \A q \in Ranks : HelloPrinted(q) /\ q \in arrived
                                     /\ pc[q] \in {"in_barrier", "exit", "done"})
    /\ <>(\A r \in Ranks : HelloReturned(r))

\* two or more ranks, all back from the barrier, one of them already finished
\* while another has only just returned
C11_Witness ==
    /\ n >= 2
    /\ \A r \in Ranks : HelloReturned(r) /\ HelloPrinted(r)
    /\ \E r, q \in Ranks : pc[r] = "done" /\ pc[q] = "exit"

---------------------------------------------------------------------------
(* point_mpi.py                                                            *)

\* Python objects: an int, a float (in hundredths), a dict (its items in order)
PyInt(i)       == [t |-> "int", v |-> i]
PyFloat(cents) == [t |-> "float", v |-> cents]

\* {'a': 7, 'b': 3.14}
TheDict == << <<"a", PyInt(7)>>, <<"b", PyFloat(314)>> >>

\* repr() of a float given in hundredths: 3.14, 3.05, 3.1, 3.0
FloatRepr(cents) ==
    Digits(cents \div 100) \o <<".">> \o
    (IF cents % 10 = 0 THEN Digits((cents % 100) \div 10)
     ELSE <<DigitChar((cents % 100) \div 10), DigitChar(cents % 10)>>)

ValueRepr(val) == IF val.t = "int" THEN Digits(val.v) ELSE FloatRepr(val.v)

RECURSIVE ItemsRepr(_)
ItemsRepr(items) ==
    IF items = <<>> THEN <<>>
    ELSE <<"'" \o items[1][1] \o "'", ": ">> \o ValueRepr(items[1][2])
         \o (IF Len(items) > 1 THEN <<", ">> ELSE <<>>) \o ItemsRepr(Tail(items))

\* repr() of a dict
DictRepr(items) == <<"{">> \o ItemsRepr(items) \o <<"}">>

\* a serialisation that keeps only the whole part of a float
PickleWholeNumbers(items) ==
    [i \in 1..Len(items) |->
        <<items[i][1], items[i][2].t,
          Digits(IF items[i][2].t = "float" THEN items[i][2].v \div 100
                 ELSE items[i][2].v)>>]

\* pickle.dumps: every item as its key, its type and the digits of its value
Pickle(items) ==
    [i \in 1..Len(items) |-> <<items[i][1], items[i][2].t, Digits(items[i][2].v)>>]

\* pickle.loads
Unpickle(bytes) ==
    [i \in 1..Len(bytes) |-> <<bytes[i][1], [t |-> bytes[i][2], v |-> ParseInt(bytes[i][3])]>>]

\* print('On process 1, data is ', data): the arguments separated by a space
DataLine(items) == <<"On process 1, data is ", " ">> \o DictRepr(items)

InitPoint ==
    /\ n \in 1..MaxProcs
    /\ pc = [r \in Ranks |-> "start"]
    /\ InitStdout
    /\ arrived = {}
    /\ data = [r \in Ranks |-> <<>>]
    /\ chan = <<>>
    /\ sendCalls = <<>>
    /\ received = <<>>
    /\ IdleBcast /\ IdlePi

\* the two branches the other way round: rank 0 receives, rank 1 sends
PointGetRankSwapped(r) ==
    /\ pc[r] = "start"
    /\ pc' = [pc EXCEPT ![r] = IF r = 0 THEN "recv" ELSE IF r = 1 THEN "init" ELSE "exit"]
    /\ UNCHANGED <<n, stdoutVars, arrived, pointVars, bcastVars, piVars>>

\* rank = comm.Get_rank(), and the branch the rank takes
PointGetRank(r) ==
    /\ pc[r] = "start"
    /\ pc' = [pc EXCEPT ![r] = IF r = 0 THEN "init" ELSE IF r = 1 THEN "recv" ELSE "exit"]
    /\ UNCHANGED <<n, stdoutVars, arrived, pointVars, bcastVars, piVars>>

\* data = {'a': 7, 'b': 3.14}
PointInitData(r) ==
    /\ pc[r] = "init"
    /\ data' = [data EXCEPT ![r] = TheDict]
    /\ pc' = [pc EXCEPT ![r] = "send"]
    /\ UNCHANGED <<n, stdoutVars, arrived, chan, sendCalls, received, bcastVars, piVars>>

\* comm.send(data, dest=1): the pickled object is handed to MPI
PointSend(r) ==
    /\ pc[r] = "send"
    /\ 1 \in Ranks
    /\ chan' = Append(chan, [src |-> r, dst |-> 1, payload |-> Pickle(data[r])])
    /\ sendCalls' = Append(sendCalls, [src |-> r, dst |-> 1])
    /\ pc' = [pc EXCEPT ![r] = "in_send"]
    /\ UNCHANGED <<n, stdoutVars, arrived, data, received, bcastVars, piVars>>

\* comm.send(data, dest=1) when the communicator has no rank 1: MPI rejects the
\* destination and mpi4py raises; nothing is sent
PointSendInvalidRank(r) ==
    /\ pc[r] = "send"
    /\ 1 \notin Ranks
    /\ sendCalls' = Append(sendCalls, [src |-> r, dst |-> 1])
    /\ pc' = [pc EXCEPT ![r] = "raised"]
    /\ UNCHANGED <<n, stdoutVars, arrived, data, chan, received, bcastVars, piVars>>

\* a standard-mode send returns when the message is buffered or matched,
\* whichever the implementation chooses
PointSendReturn(r) ==
    /\ pc[r] = "in_send"
    /\ pc' = [pc EXCEPT ![r] = "exit"]
    /\ UNCHANGED <<n, stdoutVars, arrived, pointVars, bcastVars, piVars>>

\* a receive that reads the message and leaves it pending
PointRecvLeavesMessage(r) ==
    /\ pc[r] = "recv"
    /\ \E i \in 1..Len(chan) :
          /\ chan[i].src = 0 /\ chan[i].dst = r
          /\ \A j \in 1..(i - 1) : ~(chan[j].src = 0 /\ chan[j].dst = r)
          /\ data' = [data EXCEPT ![r] = Unpickle(chan[i].payload)]
          /\ received' = Append(received, [by |-> r, src |-> chan[i].src])
    /\ pc' = [pc EXCEPT ![r] = "print"]
    /\ UNCHANGED <<n, stdoutVars, arrived, chan, sendCalls, bcastVars, piVars>>

\* data = comm.recv(source=0): blocks until a message from rank 0 is there
PointRecv(r) ==
    /\ pc[r] = "recv"
    /\ \E i \in 1..Len(chan) :
          /\ chan[i].src = 0 /\ chan[i].dst = r
          /\ \A j \in 1..(i - 1) : ~(chan[j].src = 0 /\ chan[j].dst = r)
          /\ data' = [data EXCEPT ![r] = Unpickle(chan[i].payload)]
          /\ chan' = SubSeq(chan, 1, i - 1) \o SubSeq(chan, i + 1, Len(chan))
          /\ received' = Append(received, [by |-> r, src |-> chan[i].src])
    /\ pc' = [pc EXCEPT ![r] = "print"]
    /\ UNCHANGED <<n, stdoutVars, arrived, sendCalls, bcastVars, piVars>>

\* print('On process 1, data is ', data)
PointPrint(r) ==
    /\ pc[r] = "print"
    /\ Emit(r, DataLine(data[r]))
    /\ pc' = [pc EXCEPT ![r] = "exit"]
    /\ UNCHANGED <<n, buffered, arrived, pointVars, bcastVars, piVars>>

\* end of the script, or the uncaught exception ending it
PointExit(r) ==
    /\ pc[r] \in {"exit", "raised"}
    /\ FlushAtExit(r)
    /\ pc' = [pc EXCEPT ![r] = IF pc[r] = "exit" THEN "done" ELSE "failed"]
    /\ UNCHANGED <<n, buffered, arrived, pointVars, bcastVars, piVars>>

NextPoint ==
    \E r \in Ranks :
        \/ PointGetRank(r)
        \/ PointInitData(r)
        \/ PointSend(r)
        \/ PointSendInvalidRank(r)
        \/ PointSendReturn(r)
        \/ PointRecv(r)
        \/ PointPrint(r)
        \/ PointExit(r)

SpecPoint == InitPoint /\ [][NextPoint]_vars

\* C3: with 2 processes, what rank 1 obtains from comm.recv(source=0) is the
\* dictionary {'a': 7, 'b': 3.14} rank 0 sent, and the run prints exactly one
\* line, printed by rank 1, showing that dictionary.
SampleDataLine ==
    <<"On process 1, data is ", " ", "{", "'a'", ": ", "7", ", ",
      "'b'", ": ", "3", ".", "1", "4", "}">>

C3_RecvEqualsSent ==
    n = 2 =>
        /\ pc[1] \in {"print", "exit", "done"} =>
              /\ data[1] = << <<"a", [t |-> "int", v |-> 7]>>,
                              <<"b", [t |-> "float", v |-> 314]>> >>
              /\ data[1] = data[0]
        /\ PrintedBy(0) = <<>>
        /\ PrintedBy(1) = (IF pc[1] \in {"exit", "done"}
                           THEN <<SampleDataLine>> ELSE <<>>)
        /\ AllDone => TextOf(out) = <<SampleDataLine>>

C3_Witness ==
    /\ n = 2
    /\ AllDone
    /\ TextOf(out) = <<SampleDataLine>>

\* one process of the point-to-point run: whatever step rank r can take next
PointStep(r) ==
    /\ r \in Ranks
    /\ \/ PointGetRank(r)
       \/ PointInitData(r)
       \/ PointSend(r)
       \/ PointSendInvalidRank(r)
       \/ PointSendReturn(r)
       \/ PointRecv(r)
       \/ PointPrint(r)
       \/ PointExit(r)

\* mpirun runs every rank as a process of its own, so a rank that can take a
\* step eventually takes it
FairSpecPoint ==
    /\ InitPoint
    /\ [][NextPoint]_vars
    /\ \A r \in 0..(MaxProcs - 1) : WF_vars(PointStep(r))

TheSendCall == [src |-> 0, dst |-> 1]
TheReceipt == [by |-> 1, src |-> 0]

\* C12: in the point-to-point example run with n >= 2 processes, exactly one
\* message is sent (by rank 0 to rank 1) and it is received exactly once (by
\* rank 1); ranks 2..n-1 neither send nor receive nor print; every process
\* terminates, and no message is left unreceived at the end.
C12_OneMessageOneReceipt ==
    /\ [](n >= 2 =>
            /\ Len(sendCalls) <= 1
            /\ \A i \in 1..Len(sendCalls) : sendCalls[i] = TheSendCall
            /\ Len(received) <= 1
            /\ \A i \in 1..Len(received) : received[i] = TheReceipt
            /\ Len(chan) + Len(received) = Len(sendCalls)
            /\ \A r \in Ranks :
                  r >= 2 => /\ pc[r] \in {"start", "exit", "done"}
                            /\ PrintedBy(r) = <<>>)
    /\ <>(n >= 2 =>
            /\ AllDone
            /\ sendCalls = <<TheSendCall>>
            /\ received = <<TheReceipt>>
            /\ chan = <<>>)

\* three or more ranks, all finished: the message has gone from rank 0 to
\* rank 1 and rank 1 alone has printed
C12_Witness ==
    /\ n >= 3
    /\ AllDone
    /\ sendCalls = <<TheSendCall>>
    /\ received = <<TheReceipt>>
    /\ chan = <<>>
    /\ Len(PrintedBy(1)) = 1

\* C13: in the point-to-point example run with exactly 1 process, rank 0 still
\* executes comm.send(data, dest=1) towards a rank that is not in the
\* communicator; the send is never matched by a receive and the line
\* 'On process 1, data is ...' is never printed.
C13_LoneSendNeverMatched ==
    n = 1 =>
        /\ pc[0] \notin {"recv", "print"}
        /\ pc[0] \in {"in_send", "raised", "exit", "failed", "done"}
              => sendCalls = <<TheSendCall>>
        /\ received = <<>>
        /\ PrintedBy(0) = <<>>

\* the lone rank 0 has made the send call and its script has ended, with
\* nothing received and nothing on the terminal
C13_Witness ==
    /\ n = 1
    /\ pc[0] \in {"failed", "done"}
    /\ sendCalls = <<TheSendCall>>
    /\ received = <<>>
    /\ out = <<>>

---------------------------------------------------------------------------
(* broadcast_mpi.py                                                        *)

\* mpirun -np 4 python broadcast_mpi.py
DocProcs == 4

\* N = 5
VecLen == 5

\* "-"*78
DashWidth == 78

\* np.arange(N, dtype=np.float64)
Arange(len) == [i \in 1..len |-> i - 1]

\* np.empty(N, dtype=np.float64): whatever the allocated memory holds
EmptyArrays(len) == {[i \in 1..len |-> 0], [i \in 1..len |-> 7 - i]}

RECURSIVE ElementsStr(_)
\* the elements of a float64 array as numpy prints them: 0. 1. 2.
ElementsStr(arr) ==
    IF arr = <<>> THEN <<>>
    ELSE Digits(arr[1]) \o <<".">> \o (IF Len(arr) > 1 THEN <<" ">> ELSE <<>>)
         \o ElementsStr(Tail(arr))

\* str(A) for a one-dimensional float64 array
ArrayStr(arr) == <<"[">> \o ElementsStr(arr) \o <<"]">>

DashLine == <<Repeat("-", DashWidth)>>

\* " Running on %d cores" % comm.size
CoresLine(size) == <<" Running on ">> \o Digits(size) \o <<" cores">>

\* "[%02d] %s" % (comm.rank, A)
ArrayLine(rank, arr) == <<"[">> \o Format02d(rank) \o <<"] ">> \o ArrayStr(arr)

BcastRoot == 0

InitBcast ==
    /\ n \in (1..MaxProcs) \cup {DocProcs}
    /\ pc = [r \in Ranks |-> "header1"]
    /\ InitStdout
    /\ ~buffered => n <= MaxUnbufferedProcs
    /\ arrived = {}
    /\ A = [r \in Ranks |-> <<>>]
    /\ bcastData = <<>>
    /\ IdlePoint /\ IdlePi

\* print("-"*78)
BcastHeader1(r) ==
    /\ pc[r] = "header1"
    /\ Emit(r, DashLine)
    /\ pc' = [pc EXCEPT ![r] = "header2"]
    /\ UNCHANGED <<n, buffered, arrived, pointVars, bcastVars, piVars>>

\* print(" Running on %d cores" % comm.size)
BcastHeader2(r) ==
    /\ pc[r] = "header2"
    /\ Emit(r, CoresLine(n))
    /\ pc' = [pc EXCEPT ![r] = "header3"]
    /\ UNCHANGED <<n, buffered, arrived, pointVars, bcastVars, piVars>>

\* a header whose third line repeats the second
BcastHeader3RepeatsCores(r) ==
    /\ pc[r] = "header3"
    /\ Emit(r, CoresLine(n))
    /\ pc' = [pc EXCEPT ![r] = "barrier"]
    /\ UNCHANGED <<n, buffered, arrived, pointVars, bcastVars, piVars>>

\* print("-"*78)
BcastHeader3(r) ==
    /\ pc[r] = "header3"
    /\ Emit(r, DashLine)
    /\ pc' = [pc EXCEPT ![r] = "barrier"]
    /\ UNCHANGED <<n, buffered, arrived, pointVars, bcastVars, piVars>>

\* comm.Barrier() returns
BcastBarrierReturn(r) ==
    /\ pc[r] = "in_barrier"
    /\ BarrierOpen
    /\ pc' = [pc EXCEPT ![r] = "alloc"]
    /\ UNCHANGED <<n, stdoutVars, arrived, pointVars, bcastVars, piVars>>

\* N = 5; if comm.rank == 0: A = np.arange(N, dtype=np.float64)
BcastArange(r) ==
    /\ pc[r] = "alloc"
    /\ r = 0
    /\ A' = [A EXCEPT ![r] = Arange(VecLen)]
    /\ pc' = [pc EXCEPT ![r] = "bcast"]
    /\ UNCHANGED <<n, stdoutVars, arrived, pointVars, bcastData, piVars>>

\* N = 5; else: A = np.empty(N, dtype=np.float64)
BcastEmpty(r) ==
    /\ pc[r] = "alloc"
    /\ r # 0
    /\ \E garbage \in EmptyArrays(VecLen) : A' = [A EXCEPT ![r] = garbage]
    /\ pc' = [pc EXCEPT ![r] = "bcast"]
    /\ UNCHANGED <<n, stdoutVars, arrived, pointVars, bcastData, piVars>>

\* comm.Bcast([A, MPI.DOUBLE]) on the root (root=0 by default): the buffer is
\* sent; the root need not wait for the others
BcastSend(r) ==
    /\ pc[r] = "bcast"
    /\ r = BcastRoot
    /\ bcastData' = A[r]
    /\ pc' = [pc EXCEPT ![r] = "print"]
    /\ UNCHANGED <<n, stdoutVars, arrived, pointVars, A, piVars>>

\* a broadcast that leaves the receiver's own array as it was
BcastReceiveKeepsOwn(r) ==
    /\ pc[r] = "bcast"
    /\ r # BcastRoot
    /\ bcastData # <<>>
    /\ A' = A
    /\ pc' = [pc EXCEPT ![r] = "print"]
    /\ UNCHANGED <<n, stdoutVars, arrived, pointVars, bcastData, piVars>>

\* comm.Bcast([A, MPI.DOUBLE]) on another rank: returns with the root's data
\* in A once the root has sent it
BcastReceive(r) ==
    /\ pc[r] = "bcast"
    /\ r # BcastRoot
    /\ bcastData # <<>>
    /\ A' = [A EXCEPT ![r] = bcastData]
    /\ pc' = [pc EXCEPT ![r] = "print"]
    /\ UNCHANGED <<n, stdoutVars, arrived, pointVars, bcastData, piVars>>

\* print("[%02d] %s" % (comm.rank, A))
BcastPrint(r) ==
    /\ pc[r] = "print"
    /\ Emit(r, ArrayLine(r, A[r]))
    /\ pc' = [pc EXCEPT ![r] = "exit"]
    /\ UNCHANGED <<n, buffered, arrived, pointVars, bcastVars, piVars>>

\* end of the script
BcastExit(r) ==
    /\ pc[r] = "exit"
    /\ FlushAtExit(r)
    /\ pc' = [pc EXCEPT ![r] = "done"]
    /\ UNCHANGED <<n, buffered, arrived, pointVars, bcastVars, piVars>>

NextBcast ==
    \E r \in Ranks :
        \/ BcastHeader1(r)
        \/ BcastHeader2(r)
        \/ BcastHeader3(r)
        \/ BarrierEnter(r)
        \/ BcastBarrierReturn(r)
        \/ BcastArange(r)
        \/ BcastEmpty(r)
        \/ BcastSend(r)
        \/ BcastReceive(r)
        \/ BcastPrint(r)
        \/ BcastExit(r)

SpecBcast == InitBcast /\ [][NextBcast]_vars

\* the lines of the sample output of the notebook
SampleDashLine ==
    <<"------------------------------------------------------------------------------">>
SampleCoresLine == <<" Running on ", "4", " cores">>
SampleArrayText == <<"[", "0", ".", " ", "1", ".", " ", "2", ".", " ",
                     "3", ".", " ", "4", ".", "]">>
SampleArrayLine(rr) == <<"[", "0", rr, "] ">> \o SampleArrayText
SampleBlock(rr) ==
    <<SampleDashLine, SampleCoresLine, SampleDashLine, SampleArrayLine(rr)>>
SampleOutput ==
    SampleBlock("0") \o SampleBlock("1") \o SampleBlock("2") \o SampleBlock("3")

RankChar(r) == <<"0", "1", "2", "3", "4", "5", "6", "7", "8", "9">>[r + 1]

\* the array lines a rank has printed: those that start with "["
ArrayLinesBy(r) ==
    {l.text : l \in {p \in PrintedLines : p.src = r /\ p.text[1] = "["}}

\* C2: in the broadcasting example, for every process count n >= 1, after
\* comm.Bcast has returned on a rank that rank's A equals rank 0's array
\* [0, 1, 2, 3, 4], and every array line any rank prints shows
\* [0. 1. 2. 3. 4.], never the uninitialised contents of np.empty.
C2_BcastDeliversRootArray ==
    /\ \A r \in Ranks : pc[r] \in {"print", "exit", "done"} => A[r] = <<0, 1, 2, 3, 4>>
    /\ \A l \in PrintedLines :
          l.text[1] = "[" => l.text = SampleArrayLine(RankChar(l.src))
    /\ \A r \in Ranks : pc[r] \in {"exit", "done"} => ArrayLinesBy(r) # {}

C2_Witness ==
    /\ n >= 2
    /\ \A r \in Ranks : pc[r] \in {"exit", "done"}
    /\ \E r \in Ranks : r # 0 /\ ArrayLinesBy(r) # {}

\* C4 as stated: with 4 processes the output is the four ranks' blocks (three
\* header lines, then the array line) one after the other in rank order.
C4_SampleOutputInRankOrder ==
    (n = DocProcs /\ AllDone) => TextOf(out) = SampleOutput

\* C4 as amended: with 4 processes the output holds 16 lines, for each rank
\* its three header lines and then its array line '[rr] [0. 1. 2. 3. 4.]' in
\* that order; for any process count a rank's own lines keep the order header,
\* header, header, array line.  How the lines of different ranks interleave
\* is not fixed.
C4_EachRanksLinesInProgramOrder ==
    AllDone =>
        /\ Len(out) = 4 * n
        /\ \A r \in Ranks :
              /\ Len(LinesFrom(out, r)) = 4
              /\ LinesFrom(out, r)[1] = SampleDashLine
              /\ LinesFrom(out, r)[2][1] = " Running on "
              /\ LinesFrom(out, r)[3] = SampleDashLine
              /\ LinesFrom(out, r)[4] = SampleArrayLine(RankChar(r))
              /\ n = DocProcs => LinesFrom(out, r) = SampleBlock(RankChar(r))

C4_Witness ==
    /\ n = DocProcs
    /\ AllDone
    /\ Len(out) = 16
    /\ TextOf(out) # SampleOutput

\* C10: in the broadcasting example, for every process count n, no rank
\* enters comm.Bcast or prints its array line before every one of the n
\* ranks has executed its three header print calls.
C10_HeadersBeforeBcast ==
    (\E r \in Ranks :
        \/ pc[r] \in {"bcast", "print", "exit", "done"}
        \/ \E l \in PrintedLines : l.text[1] = "[")
    => \A q \in Ranks :
          LET printed == PrintedBy(q)
          IN  /\ Len(printed) >= 3
              /\ printed[1] = SampleDashLine
              /\ printed[2][1] = " Running on "
              /\ printed[3] = SampleDashLine

C10_Witness ==
    /\ n >= 2
    /\ \E r \in Ranks : ArrayLinesBy(r) # {}
    /\ \E q \in Ranks : pc[q] = "alloc"

---------------------------------------------------------------------------
(* parent_pi.py and child_pi.py                                            *)

\* maxprocs=5
NumChildren == 5

\* N = numpy.array(100, 'i')
DefaultN == 100

\* 1.0 / N for an integer N >= 0: numpy gives inf for N = 0
Reciprocal(N) == IF N = 0 THEN Inf ELSE Fin(Scale \div N)

\* a * b
FMul(a, b) ==
    IF a.k = "nan" \/ b.k = "nan" THEN NaN
    ELSE IF a.k = "inf" THEN (IF b.k = "fin" /\ b.v = 0 THEN NaN ELSE Inf)
    ELSE IF b.k = "inf" THEN (IF a.v = 0 THEN NaN ELSE Inf)
    ELSE Fin((a.v * b.v) \div Scale)

\* a + b
FAdd(a, b) ==
    IF a.k = "nan" \/ b.k = "nan" THEN NaN
    ELSE IF a.k = "inf" \/ b.k = "inf" THEN Inf
    ELSE Fin(a.v + b.v)

\* a range that includes its stop value
RangeLenInclusive(start, stop, step) ==
    IF start > stop THEN 0 ELSE (stop - start) \div step + 1

\* len(range(start, stop, step)) for step >= 1
RangeLen(start, stop, step) ==
    IF start >= stop THEN 0 ELSE (stop - start - 1) \div step + 1

\* list(range(start, stop, step)) for step >= 1: the k-th value is
\* start + (k-1)*step
RangeList(start, stop, step) ==
    [k \in 1..RangeLen(start, stop, step) |-> start + (k - 1) * step]

\* an integrand without the square: 4.0 / (1.0 + x)
TermWithoutSquare(hv, i) ==
    LET x == (hv * (2 * i + 1)) \div 2
    IN  (4 * Scale * Scale) \div (Scale + x)

\* x = h * (i + 0.5); 4.0 / (1.0 + x**2), for a finite h of value hv
Term(hv, i) ==
    LET x == (hv * (2 * i + 1)) \div 2
    IN  (4 * Scale * Scale) \div (Scale + (x ^ 2) \div Scale)

\* s = 0.0; for i in indices: s += 4.0 / (1.0 + x**2)
SumTerms(indices, hv) ==
    LET sumAfter[passes \in 0..Len(indices)] ==
            IF passes = 0 THEN 0
            ELSE sumAfter[passes - 1] + Term(hv, indices[passes])
    IN  sumAfter[Len(indices)]

\* h = 1.0 / N; s = 0.0; the loop; s * h
PartialPi(rank, N, size) ==
    LET h == Reciprocal(N)
        indices == RangeList(rank, N, size)
        s == Fin(SumTerms(indices, h.v))
    IN  FMul(s, h)

\* str() of a double: four decimals of a finite value, or inf, or nan
DoubleStr(f) ==
    IF f.k = "nan" THEN <<"nan">>
    ELSE IF f.k = "inf" THEN <<"inf">>
    ELSE Digits(f.v \div Scale) \o <<".">>
         \o [i \in 1..4 |-> DigitChar(((f.v % Scale) \div (10 ^ (4 - i))) % 10)]

Children == DOMAIN cpc

NChoices == (0..MaxN) \cup {DefaultN}

InitPi ==
    /\ n = 1
    /\ pc = [r \in Ranks |-> "spawn"]
    /\ InitStdout
    /\ arrived = {}
    /\ IdlePoint /\ IdleBcast
    /\ sourceN \in NChoices
    /\ parentN = 0 /\ parentPI = NoFloat
    /\ cpc = [c \in 0..(NumChildren - 1) |-> "unborn"]
    /\ childSize = [c \in 0..(NumChildren - 1) |-> 0]
    /\ childN = [c \in 0..(NumChildren - 1) |-> 0]
    /\ visited = [c \in 0..(NumChildren - 1) |-> <<>>]
    /\ childPI = [c \in 0..(NumChildren - 1) |-> NoFloat]
    /\ bcastN = <<>> /\ acc = NoFloat /\ contributed = {}
    /\ parentCalls = <<>>
    /\ childCalls = [c \in 0..(NumChildren - 1) |-> <<>>]

\* comm = MPI.COMM_SELF.Spawn(sys.executable, args=['child_pi.py'], maxprocs=5)
ParentSpawn(r) ==
    /\ pc[r] = "spawn"
    /\ cpc' = [c \in Children |-> "init"]
    /\ pc' = [pc EXCEPT ![r] = "setN"]
    /\ UNCHANGED <<n, stdoutVars, arrived, pointVars, bcastVars, sourceN, parentN, parentPI,
                   childSize, childN, visited, childPI, bcastN, acc, contributed,
                   parentCalls, childCalls>>

\* N = numpy.array(100, 'i'), or the value the 100 has been changed to
ParentSetN(r) ==
    /\ pc[r] = "setN"
    /\ parentN' = sourceN
    /\ pc' = [pc EXCEPT ![r] = "bcast"]
    /\ UNCHANGED <<n, stdoutVars, arrived, pointVars, bcastVars, sourceN, parentPI, cpc,
                   childSize, childN, visited, childPI, bcastN, acc, contributed,
                   parentCalls, childCalls>>

\* comm.Bcast([N, MPI.INT], root=MPI.ROOT)
ParentBcast(r) ==
    /\ pc[r] = "bcast"
    /\ bcastN' = <<parentN>>
    /\ parentCalls' = Append(parentCalls, "Bcast")
    /\ pc' = [pc EXCEPT ![r] = "initPI"]
    /\ UNCHANGED <<n, stdoutVars, arrived, pointVars, bcastVars, sourceN, parentN, parentPI,
                   cpc, childSize, childN, visited, childPI, acc, contributed,
                   childCalls>>

\* PI = numpy.array(0.0, 'd')
ParentInitPI(r) ==
    /\ pc[r] = "initPI"
    /\ parentPI' = Fin(0)
    /\ pc' = [pc EXCEPT ![r] = "reduce"]
    /\ UNCHANGED <<n, stdoutVars, arrived, pointVars, bcastVars, sourceN, parentN, cpc,
                   childSize, childN, visited, childPI, bcastN, acc, contributed,
                   parentCalls, childCalls>>

\* a Reduce whose root also waits for a contribution of its own
ParentReduceExpectsSelf(r) ==
    /\ pc[r] = "reduce"
    /\ contributed = Children \cup {Cardinality(Children)}
    /\ parentPI' = acc
    /\ parentCalls' = Append(parentCalls, "Reduce")
    /\ pc' = [pc EXCEPT ![r] = "print"]
    /\ UNCHANGED <<n, stdoutVars, arrived, pointVars, bcastVars, sourceN, parentN, cpc,
                   childSize, childN, visited, childPI, bcastN, acc, contributed,
                   childCalls>>

\* comm.Reduce(None, [PI, MPI.DOUBLE], op=MPI.SUM, root=MPI.ROOT): returns with
\* the sum in PI once every process of the remote group has contributed
ParentReduce(r) ==
    /\ pc[r] = "reduce"
    /\ contributed = Children
    /\ parentPI' = acc
    /\ parentCalls' = Append(parentCalls, "Reduce")
    /\ pc' = [pc EXCEPT ![r] = "print"]
    /\ UNCHANGED <<n, stdoutVars, arrived, pointVars, bcastVars, sourceN, parentN, cpc,
                   childSize, childN, visited, childPI, bcastN, acc, contributed,
                   childCalls>>

\* print(PI)
ParentPrint(r) ==
    /\ pc[r] = "print"
    /\ Emit(r, DoubleStr(parentPI))
    /\ pc' = [pc EXCEPT ![r] = "disconnect"]
    /\ UNCHANGED <<n, buffered, arrived, pointVars, bcastVars, piVars>>

\* comm.Disconnect()
ParentDisconnect(r) ==
    /\ pc[r] = "disconnect"
    /\ parentCalls' = Append(parentCalls, "Disconnect")
    /\ pc' = [pc EXCEPT ![r] = "exit"]
    /\ UNCHANGED <<n, stdoutVars, arrived, pointVars, bcastVars, sourceN, parentN, parentPI,
                   cpc, childSize, childN, visited, childPI, bcastN, acc,
                   contributed, childCalls>>

\* end of parent_pi.py
ParentExit(r) ==
    /\ pc[r] = "exit"
    /\ FlushAtExit(r)
    /\ pc' = [pc EXCEPT ![r] = "done"]
    /\ UNCHANGED <<n, buffered, arrived, pointVars, bcastVars, piVars>>

\* comm = MPI.Comm.Get_parent(); size = comm.Get_size(); rank = comm.Get_rank();
\* N = numpy.array(0, dtype='i')
ChildInit(c) ==
    /\ cpc[c] = "init"
    /\ childSize' = [childSize EXCEPT ![c] = Cardinality(Children)]
    /\ childN' = [childN EXCEPT ![c] = 0]
    /\ cpc' = [cpc EXCEPT ![c] = "bcast"]
    /\ UNCHANGED <<n, pc, stdoutVars, arrived, pointVars, bcastVars, sourceN,
                   parentN, parentPI, visited, childPI, bcastN, acc, contributed,
                   parentCalls, childCalls>>

\* a Bcast that returns without the parent's data
ChildBcastWithoutData(c) ==
    /\ cpc[c] = "bcast"
    /\ childCalls' = [childCalls EXCEPT ![c] = Append(@, "Bcast")]
    /\ cpc' = [cpc EXCEPT ![c] = "compute"]
    /\ UNCHANGED <<n, pc, stdoutVars, arrived, pointVars, bcastVars, sourceN,
                   parentN, parentPI, childSize, childN, visited, childPI, bcastN,
                   acc, contributed, parentCalls>>

\* comm.Bcast([N, MPI.INT], root=0): returns with the parent's N
ChildBcast(c) ==
    /\ cpc[c] = "bcast"
    /\ bcastN # <<>>
    /\ childN' = [childN EXCEPT ![c] = bcastN[1]]
    /\ childCalls' = [childCalls EXCEPT ![c] = Append(@, "Bcast")]
    /\ cpc' = [cpc EXCEPT ![c] = "compute"]
    /\ UNCHANGED <<n, pc, stdoutVars, arrived, pointVars, bcastVars, sourceN,
                   parentN, parentPI, childSize, visited, childPI, bcastN, acc, contributed,
                   parentCalls>>

\* h = 1.0 / N; s = 0.0; for i in range(rank, N, size): ...;
\* PI = numpy.array(s * h, dtype='d')
ChildCompute(c) ==
    /\ cpc[c] = "compute"
    /\ cpc' = [cpc EXCEPT ![c] = "reduce"]
    /\ visited' = [visited EXCEPT ![c] = RangeList(c, childN[c], childSize[c])]
    /\ childPI' = [childPI EXCEPT ![c] = PartialPi(c, childN[c], childSize[c])]
    /\ UNCHANGED <<n, pc, stdoutVars, arrived, pointVars, bcastVars, sourceN,
                   parentN, parentPI, childSize, childN, bcastN, acc, contributed,
                   parentCalls, childCalls>>

\* a Reduce that keeps the last contribution instead of the sum
ChildReduceKeepsLast(c) ==
    /\ cpc[c] = "reduce"
    /\ acc' = childPI[c]
    /\ contributed' = contributed \cup {c}
    /\ childCalls' = [childCalls EXCEPT ![c] = Append(@, "Reduce")]
    /\ cpc' = [cpc EXCEPT ![c] = "disconnect"]
    /\ UNCHANGED <<n, pc, stdoutVars, arrived, pointVars, bcastVars, sourceN, parentN,
                   parentPI, childSize, childN, visited, childPI, bcastN,
                   parentCalls>>

\* comm.Reduce([PI, MPI.DOUBLE], None, op=MPI.SUM, root=0): the child's PI is
\* combined into the sum; the child need not wait for the others
ChildReduce(c) ==
    /\ cpc[c] = "reduce"
    /\ acc' = FAdd(acc, childPI[c])
    /\ contributed' = contributed \cup {c}
    /\ childCalls' = [childCalls EXCEPT ![c] = Append(@, "Reduce")]
    /\ cpc' = [cpc EXCEPT ![c] = "disconnect"]
    /\ UNCHANGED <<n, pc, stdoutVars, arrived, pointVars, bcastVars, sourceN,
                   parentN, parentPI, childSize, childN, visited, childPI, bcastN,
                   parentCalls>>

\* comm.Disconnect(), and the end of child_pi.py
ChildDisconnect(c) ==
    /\ cpc[c] = "disconnect"
    /\ childCalls' = [childCalls EXCEPT ![c] = Append(@, "Disconnect")]
    /\ cpc' = [cpc EXCEPT ![c] = "done"]
    /\ UNCHANGED <<n, pc, stdoutVars, arrived, pointVars, bcastVars, sourceN,
                   parentN, parentPI, childSize, childN, visited, childPI, bcastN, acc,
                   contributed, parentCalls>>

ParentStep ==
    \E r \in Ranks :
        \/ ParentSpawn(r)
        \/ ParentSetN(r)
        \/ ParentBcast(r)
        \/ ParentInitPI(r)
        \/ ParentReduce(r)
        \/ ParentPrint(r)
        \/ ParentDisconnect(r)
        \/ ParentExit(r)

ChildStep(c) ==
    \/ ChildInit(c)
    \/ ChildBcast(c)
    \/ ChildCompute(c)
    \/ ChildReduce(c)
    \/ ChildDisconnect(c)

NextPi == ParentStep \/ \E c \in Children : ChildStep(c)

SpecPi == InitPi /\ [][NextPi]_vars

\* parent_pi.py as written: N = numpy.array(100, 'i')
InitPiAsWritten == InitPi /\ sourceN = DefaultN

\* the program as written, with every process kept running: none of them is
\* starved by the others
FairSpecPi ==
    /\ InitPiAsWritten
    /\ [][NextPi]_vars
    /\ WF_vars(ParentStep)
    /\ \A c \in 0..(NumChildren - 1) : WF_vars(ChildStep(c))

\* the index sets and partial sums of child_pi.py for any N and any number of
\* children: every child stands right after its Bcast and runs its loop
InitRange ==
    /\ n = 1
    /\ pc = [r \in Ranks |-> "reduce"]
    /\ buffered = TRUE
    /\ buf = [r \in Ranks |-> <<>>]
    /\ out = <<>>
    /\ arrived = {}
    /\ IdlePoint /\ IdleBcast
    /\ sourceN \in 0..MaxRangeN
    /\ parentN = sourceN
    /\ parentPI = Fin(0)
    /\ \E size \in 1..MaxSize :
          /\ cpc = [c \in 0..(size - 1) |-> "compute"]
          /\ childSize = [c \in 0..(size - 1) |-> size]
          /\ childN = [c \in 0..(size - 1) |-> parentN]
          /\ visited = [c \in 0..(size - 1) |-> <<>>]
          /\ childPI = [c \in 0..(size - 1) |-> NoFloat]
          /\ childCalls = [c \in 0..(size - 1) |-> <<"Bcast">>]
    /\ bcastN = <<parentN>> /\ acc = NoFloat /\ contributed = {}
    /\ parentCalls = <<"Bcast">>

NextRange == \E c \in Children : ChildCompute(c)

SpecRange == InitRange /\ [][NextRange]_vars

Computed == {c \in Children : cpc[c] \in {"reduce", "disconnect", "done"}}
IndexSet(c) == {visited[c][i] : i \in 1..Len(visited[c])}
ParentHasPI == pc[0] \in {"print", "disconnect", "exit", "done"}

RECURSIVE SumOfPartials(_)
\* childPI[0] + ... + childPI[k-1]
SumOfPartials(k) ==
    IF k = 0 THEN Fin(0) ELSE FAdd(SumOfPartials(k - 1), childPI[k - 1])

\* C1: the PI the parent holds at print(PI) is the sum of the partial values
\* s*h of all 5 children: each is included exactly once, none is missing,
\* whatever the order in which the children reach the Reduce.
C1_ReduceSumsAllPartials ==
    ParentHasPI =>
        /\ Computed = 0..4
        /\ contributed = 0..4
        /\ parentPI = SumOfPartials(5)

C1_Witness ==
    /\ pc[0] = "print"
    /\ parentN = DefaultN
    /\ parentPI.k = "fin"
    /\ parentPI.v > childPI[0].v
    /\ \E c \in Children : cpc[c] = "disconnect"

\* 3.1416, in units of 1/Scale
PiRef == (31416 * Scale) \div 10000
ErrorOf(f) == IF f.v >= PiRef THEN f.v - PiRef ELSE PiRef - f.v

RECURSIVE PiEstimateUpTo(_, _)
PiEstimateUpTo(N, k) ==
    IF k = 0 THEN Fin(0)
    ELSE FAdd(PiEstimateUpTo(N, k - 1), PartialPi(k - 1, N, NumChildren))
\* what the program prints when N is edited to the given value
PiEstimate(N) == PiEstimateUpTo(N, NumChildren)

C7_PartitionAndZeroContribution ==
    /\ \A c \in Computed :
          /\ Cardinality(IndexSet(c)) = Len(visited[c])
          /\ \A d \in Computed : c # d => IndexSet(c) \cap IndexSet(d) = {}
          /\ c >= childN[c] => (visited[c] = <<>> /\ childPI[c] = [k |-> "fin", v |-> 0])
    /\ Computed = Children =>
          UNION {IndexSet(c) : c \in Children} = 0..(parentN - 1)

\* C7 as amended: the index sets are pairwise disjoint and their union is
\* exactly 0..N-1 for every N >= 0 and size >= 1; a child whose rank >= N
\* runs an empty loop and contributes 0 when N >= 1, while for N = 0 it
\* contributes 0.0 * inf = nan.
C7_PartitionAndEmptyLoop ==
    /\ \A c \in Computed :
          /\ Cardinality(IndexSet(c)) = Len(visited[c])
          /\ \A d \in Computed : c # d => IndexSet(c) \cap IndexSet(d) = {}
          /\ c >= childN[c] =>
                /\ visited[c] = <<>>
                /\ childN[c] >= 1 => childPI[c] = [k |-> "fin", v |-> 0]
                /\ childN[c] = 0 => childPI[c].k = "nan"
    /\ Computed = Children =>
          UNION {IndexSet(c) : c \in Children} = 0..(parentN - 1)

C7_Witness ==
    /\ Computed = Children
    /\ Cardinality(Children) = 3
    /\ parentN = 2
    /\ visited[2] = <<>>
    /\ visited[1] = <<1>>

\* C8: no child evaluates h = 1.0 / N or starts its loop before the broadcast
\* has delivered the parent's N to it: the N a child computes with is the
\* parent's value (100), never the child's initial 0.
C8_ChildComputesWithParentsN ==
    \A c \in Children :
        cpc[c] \in {"compute", "reduce", "disconnect", "done"} =>
            /\ pc[0] \notin {"spawn", "setN", "bcast"}
            /\ childN[c] = parentN
            /\ parentN = 100 => childN[c] # 0
            /\ (parentN = 100 /\ c \in Computed) =>
                  (Len(visited[c]) = 20 /\ childPI[c].k = "fin" /\ childPI[c].v > 0)

C8_Witness ==
    /\ parentN = 100
    /\ \E c \in Children : cpc[c] = "reduce" /\ Len(visited[c]) = 20
    /\ \E c \in Children : cpc[c] = "bcast" /\ childN[c] = 0

IsPrefix(s1, s2) == Len(s1) <= Len(s2) /\ s1 = SubSeq(s2, 1, Len(s1))
PiAllDone ==
    /\ pc[0] = "done"
    /\ \A c \in Children : cpc[c] = "done"

\* C9: the pi example is deadlock-free: the parent and each of the 5 children
\* call the collectives of the shared communicator in the same order (Bcast,
\* Reduce, Disconnect), and under fair scheduling the parent and every child
\* eventually complete Disconnect and terminate.
C9_PiTerminates ==
    /\ [](/\ IsPrefix(parentCalls, <<"Bcast", "Reduce", "Disconnect">>)
          /\ \A c \in Children :
                IsPrefix(childCalls[c], <<"Bcast", "Reduce", "Disconnect">>))
    /\ <>(/\ PiAllDone
          /\ parentCalls = <<"Bcast", "Reduce", "Disconnect">>
          /\ \A c \in Children : childCalls[c] = <<"Bcast", "Reduce", "Disconnect">>)

C9_Witness ==
    /\ PiAllDone
    /\ Cardinality(Children) = 5
    /\ parentCalls = <<"Bcast", "Reduce", "Disconnect">>

=============================================================================
